---- MODULE Spec2Model ----
(***************************************************************************)
(* ImprovedRAGSystem (improved_rag_system.py): the sentence-aware chunker, *)
(* the bulk indexing pass and the hybrid (semantic + BM25) search.         *)
(*                                                                         *)
(* Representation.  A text is the sequence of its tokens (integers); a     *)
(* sentence is a non-empty text; the segmenter's output is a sequence of   *)
(* sentences.  Appending `sentence + " "` is concatenation of the token    *)
(* sequences and strip() leaves a token sequence as it is.  Scores are     *)
(* fixed-point: a distance d stands for d / DistScale and a combined score *)
(* s for s / (10 * DistScale).                                             *)
(***************************************************************************)
EXTENDS Integers, Sequences, FiniteSets, TLC

VARIABLES
    \* ---- one call of smart_chunk_text
    cSentences,        \* nltk.sent_tokenize(text)
    cSize,             \* chunk_size
    cOverlap,          \* overlap
    cOut,              \* the returned list of chunks
    cDone,             \* the call has returned
    \* ---- the persistent vector store and one ImprovedRAGSystem instance
    store,             \* ids held by the persistent collection
    chunk_data,        \* self.chunk_data, in dict insertion order
    chunks,            \* self.chunks
    bm25,              \* self.bm25 (built = FALSE: None)
    instances,         \* constructions so far on the same persist path
    passes,            \* indexing passes started so far
    \* ---- process_documents in progress
    pc,                \* "idle" | "file" | "chunk" | "add" | "bm25"
    files,             \* the glob result of the pass
    fi,                \* position in files
    ci,                \* position in the chunks of files[fi]
    all_chunks,
    all_ids,
    passResult,        \* "none" | "completed" | "aborted" (last pass of the instance)
    \* ---- the last search call of the instance
    sQuery,
    sK,                \* n_results
    outcome,           \* "none" | "ok" | "StoreError" | "AttributeError" | "IndexError" | "KeyError"
    semantic_results,  \* <<[id, dist]>> as returned by collection.query
    combined_scores,   \* <<[id, score]>> in dict insertion order
    sorted_items,      \* <<[id, score]>>
    formatted_results  \* <<[content, metadata, score]>>

chunkerVars == <<cSentences, cSize, cOverlap, cOut, cDone>>
instanceVars == <<store, chunk_data, chunks, bm25, instances, passes>>
passVars == <<pc, files, fi, ci, all_chunks, all_ids, passResult>>
searchVars == <<sQuery, sK, outcome, semantic_results, combined_scores,
                sorted_items, formatted_results>>
vars == <<chunkerVars, instanceVars, passVars, searchVars>>

----------------------------------------------------------------------------
\* Bounds of the model.

\* sentences per chunker input, tokens per sentence
MaxSents == 3
MaxSentLen == 3
\* chunk_size and overlap arguments tried on the chunker
MaxChunkSize == 4
MaxOverlap == 2
\* files per glob result, passes and constructions per behaviour, n_results
MaxDocs == 2
MaxPasses == 2
MaxInstances == 2
MaxK == 2

\* process_documents calls smart_chunk_text(content, chunk_size=512, overlap=50)
\* and hashes chunk[:50]; the model's documents are a few tokens long, so the
\* three numbers are scaled down with them.
ChunkSizeArg == 4
OverlapArg == 1
IdPrefixLen == 2

----------------------------------------------------------------------------
\* Helpers on sequences.

Min(a, b) == IF a < b THEN a ELSE b

Range(s) == {s[i] : i \in 1..Len(s)}

RECURSIVE Flatten(_)
Flatten(ss) == IF ss = <<>> THEN <<>> ELSE Head(ss) \o Flatten(Tail(ss))

\* s occurs in t as a contiguous run
Occurs(s, t) ==
    \E o \in 0..(Len(t) - Len(s)) : SubSeq(t, o + 1, o + Len(s)) = s

\* t with every repeated occurrence of a token removed (first one kept)
RECURSIVE DropRepeats(_, _)
DropRepeats(t, seen) ==
    IF t = <<>> THEN <<>>
    ELSE IF Head(t) \in seen THEN DropRepeats(Tail(t), seen)
    ELSE <<Head(t)>> \o DropRepeats(Tail(t), seen \cup {Head(t)})

----------------------------------------------------------------------------
\* smart_chunk_text

\* len(self.enc.encode(text))
EncLen(text) == Len(text)

\* self.enc.decode(tokens[-overlap:]); Python's tokens[-0:] is the whole list
LastTokens(tokens, overlap) ==
    IF overlap = 0 THEN tokens
    ELSE SubSeq(tokens, Len(tokens) - overlap + 1, Len(tokens))

\* the for loop over the sentences and the trailing flush
RECURSIVE ChunkLoop(_, _, _, _, _, _, _)
ChunkLoop(sentences, i, chunk_size, overlap, out, current_chunk, current_tokens) ==
    IF i > Len(sentences)
    THEN IF current_chunk # <<>> THEN Append(out, current_chunk) ELSE out
    ELSE
      LET sentence == sentences[i]
          sentence_tokens == EncLen(sentence)
      IN
      IF current_tokens + sentence_tokens > chunk_size
      THEN IF current_chunk # <<>>
           THEN IF EncLen(current_chunk) > overlap
                THEN ChunkLoop(sentences, i + 1, chunk_size, overlap,
                               Append(out, current_chunk),
                               LastTokens(current_chunk, overlap), overlap)
                ELSE ChunkLoop(sentences, i + 1, chunk_size, overlap,
                               Append(out, current_chunk),
                               current_chunk, EncLen(current_chunk))
           ELSE ChunkLoop(sentences, i + 1, chunk_size, overlap,
                          Append(out, sentence), <<>>, 0)
      ELSE ChunkLoop(sentences, i + 1, chunk_size, overlap, out,
                     current_chunk \o sentence, current_tokens + sentence_tokens)

smart_chunk_text(sentences, chunk_size, overlap) ==
    ChunkLoop(sentences, 1, chunk_size, overlap, <<>>, <<>>, 0)

----------------------------------------------------------------------------
\* The documents on disk and the queries.

\* 0.7 and 0.3, times 10; distances and similarities in units of 1 / DistScale
SemWeight == 7
LexWeight == 3
DistScale == 2

\* A file: its path, whether glob finds it as *.md or *.txt, its sentences,
\* and whether reading or chunking it raises.
Docs ==
    { [path |-> "a.md",   ext |-> "md",  fails |-> FALSE,
       sents |-> <<<<1, 2>>, <<3, 4, 5>>, <<6, 6, 6>>, <<8>>>>],
      [path |-> "b.txt",  ext |-> "txt", fails |-> FALSE,
       sents |-> <<<<9, 1>>>>],
      [path |-> "bad.md", ext |-> "md",  fails |-> TRUE,
       sents |-> <<<<2>>>>] }

\* files = glob("**/*.md") followed by glob("**/*.txt"): distinct paths, every
\* .md before every .txt, any order within each.
GlobResults ==
    { f \in UNION {[1..n -> Docs] : n \in 1..MaxDocs} :
        /\ \A i, j \in 1..Len(f) : i # j => f[i].path # f[j].path
        /\ \A i, j \in 1..Len(f) : (i < j) => ~(f[i].ext = "txt" /\ f[j].ext = "md") }

Queries == {<<1>>, <<5>>}

\* cosine distances: 0 (similarity 1), 1 (similarity 0), 3/2 (similarity -1/2)
Dists == {0, DistScale, DistScale + 1}

----------------------------------------------------------------------------
\* extract_metadata and the chunk id

\* only the source field is modelled: the service, policy and section tags are
\* read by no operation
extract_metadata(chunk, file_path) == [source |-> file_path]

\* hashlib.md5(f"{file_path}_{i}_{chunk[:50]}").hexdigest()
ChunkId(file_path, i, chunk) ==
    <<file_path, i, SubSeq(chunk, 1, Min(IdPrefixLen, Len(chunk)))>>

\* d[key] = value on an insertion-ordered dict kept as a sequence of entries
DictSet(d, entry) ==
    IF \E p \in 1..Len(d) : d[p].id = entry.id
    THEN [p \in 1..Len(d) |-> IF d[p].id = entry.id THEN entry ELSE d[p]]
    ELSE Append(d, entry)

\* list(d.keys())
Keys(d) == [p \in 1..Len(d) |-> d[p].id]

\* [chunk.lower().split() for chunk in all_chunks]
Tokenized(texts) == texts

None == [built |-> FALSE, corpus |-> <<>>]

\* BM25Okapi(tokenized_corpus)
BM25Okapi(tokenized_corpus) == [built |-> TRUE, corpus |-> tokenized_corpus]

----------------------------------------------------------------------------
\* enhance_query

\* the acronym and synonym tables, cut down to the model's tokens
acronyms == << [key |-> 1, add |-> <<6>>] >>
synonyms == << [key |-> 6, add |-> <<7>>] >>

\* for key, add in table: if key in enhanced: enhanced += add
RECURSIVE Expand(_, _, _)
Expand(enhanced, table, i) ==
    IF i > Len(table) THEN enhanced
    ELSE Expand(IF table[i].key \in Range(enhanced)
                THEN enhanced \o table[i].add ELSE enhanced,
                table, i + 1)

enhance_query(query) == Expand(Expand(query, acronyms, 1), synonyms, 1)

----------------------------------------------------------------------------
\* The collaborators of search: the vector store's query and the BM25 scorer.

\* n_results * 3
CandidateMultiplier == 3

\* orderings of m distinct elements of S
RECURSIVE Arrangements(_, _)
Arrangements(S, m) ==
    IF m = 0 THEN {<<>>}
    ELSE UNION {{<<x>> \o r : r \in Arrangements(S \ {x}, m - 1)} : x \in S}

Ascending(m) == {d \in [1..m -> Dists] : \A i \in 1..(m - 1) : d[i] <= d[i + 1]}

\* collection.query(query_embeddings, n_results=n): the n nearest entries of the
\* store (all of them when it holds fewer), ascending by distance; which entries
\* and which distances is the embedding model's choice
QueryResults(n) ==
    LET m == Min(n, Cardinality(store))
    IN {[i \in 1..m |-> [id |-> a[i], dist |-> d[i]]] :
            a \in Arrangements(store, m), d \in Ascending(m)}

\* one document's score: the occurrences of the query's tokens in it
RECURSIVE LexScore(_, _)
LexScore(query_tokens, doc) ==
    IF query_tokens = <<>> THEN 0
    ELSE Cardinality({p \in 1..Len(doc) : doc[p] = Head(query_tokens)})
         + LexScore(Tail(query_tokens), doc)

\* self.bm25.get_scores(query_tokens): one score per document, in build order
get_scores(scorer, query_tokens) ==
    [i \in 1..Len(scorer.corpus) |-> LexScore(query_tokens, scorer.corpus[i])]

----------------------------------------------------------------------------
\* search: score fusion, sort, truncation

\* combined_scores[chunk_id] = 0.7 * (1 - dist), in result order
RECURSIVE AddSemantic(_, _, _)
AddSemantic(combined, sem, i) ==
    IF i > Len(sem) THEN combined
    ELSE AddSemantic(
           DictSet(combined, [id |-> sem[i].id,
                              score |-> SemWeight * (DistScale - sem[i].dist)]),
           sem, i + 1)

ScoreOf(combined, id) == (CHOOSE e \in Range(combined) : e.id = id).score

\* for i, score in enumerate(bm25_scores): chunk_id = keys[i]; add or set 0.3 * score
RECURSIVE AddBM25(_, _, _, _)
AddBM25(combined, bm25_scores, keys, i) ==
    IF i > Len(bm25_scores) THEN combined
    ELSE LET chunk_id == keys[i]
             part == LexWeight * DistScale * bm25_scores[i]
         IN AddBM25(
              IF \E e \in Range(combined) : e.id = chunk_id
              THEN DictSet(combined, [id |-> chunk_id,
                                      score |-> ScoreOf(combined, chunk_id) + part])
              ELSE Append(combined, [id |-> chunk_id, score |-> part]),
              bm25_scores, keys, i + 1)

\* x put into a descending list after every item that does not score lower
InsertDesc(sorted, x) ==
    LET p == Cardinality({q \in 1..Len(sorted) : sorted[q].score >= x.score})
    IN SubSeq(sorted, 1, p) \o <<x>> \o SubSeq(sorted, p + 1, Len(sorted))

RECURSIVE SortFrom(_, _, _)
SortFrom(items, i, sorted) ==
    IF i > Len(items) THEN sorted
    ELSE SortFrom(items, i + 1, InsertDesc(sorted, items[i]))

\* a sort that is not stable: of equal scores the later item comes first
RECURSIVE SortFromLaterFirst(_, _, _)
SortFromLaterFirst(items, i, sorted) ==
    IF i > Len(items) THEN sorted
    ELSE LET x == items[i]
             p == Cardinality({q \in 1..Len(sorted) : sorted[q].score > x.score})
         IN SortFromLaterFirst(items, i + 1,
              SubSeq(sorted, 1, p) \o <<x>> \o SubSeq(sorted, p + 1, Len(sorted)))

SortedLaterFirst(items) == SortFromLaterFirst(items, 1, <<>>)

\* a sort over the items of nonzero score only
SortedNonzero(items) ==
    SortFrom(SelectSeq(items, LAMBDA e : e.score # 0), 1, <<>>)

\* sorted(combined_scores.items(), key=lambda x: x[1], reverse=True): stable
SortedByScore(items) == SortFrom(items, 1, <<>>)

\* a slice one item too long: [:n_results + 1]
TruncateOneMore(items, n_results) == SubSeq(items, 1, Min(n_results + 1, Len(items)))

\* [:n_results], n_results >= 0
Truncate(items, n_results) == SubSeq(items, 1, Min(n_results, Len(items)))

Lookup(d, id) == CHOOSE e \in Range(d) : e.id = id

\* the formatting loop; it is entered only when every id is a key
Formatted(items, d) ==
    [p \in 1..Len(items) |->
        [content |-> Lookup(d, items[p].id).content,
         metadata |-> Lookup(d, items[p].id).metadata,
         score |-> items[p].score]]

----------------------------------------------------------------------------
\* Initial states.

NoChunkerCall ==
    /\ cSentences = <<>> /\ cSize = 1 /\ cOverlap = 0
    /\ cOut = <<>> /\ cDone = FALSE

NoSearch ==
    /\ sQuery = <<>> /\ sK = 0 /\ outcome = "none"
    /\ semantic_results = <<>> /\ combined_scores = <<>>
    /\ sorted_items = <<>> /\ formatted_results = <<>>

\* __init__ on an empty persist path, no pass started
FreshInstance ==
    /\ store = {} /\ chunk_data = <<>> /\ chunks = <<>> /\ bm25 = None
    /\ instances = 1 /\ passes = 0
    /\ pc = "idle" /\ files = <<>> /\ fi = 0 /\ ci = 0
    /\ all_chunks = <<>> /\ all_ids = <<>> /\ passResult = "none"

Init == NoChunkerCall /\ FreshInstance /\ NoSearch

\* sentence j of a chunker input: n tokens found nowhere else in the input
SentenceOf(j, n) == [o \in 1..n |-> 10 * j + o]

InitChunker ==
    /\ \E lens \in UNION {[1..n -> 1..MaxSentLen] : n \in 0..MaxSents} :
         cSentences = [j \in 1..Len(lens) |-> SentenceOf(j, lens[j])]
    /\ cSize \in 1..MaxChunkSize
    /\ cOverlap \in 0..MaxOverlap
    /\ cOut = <<>> /\ cDone = FALSE
    /\ FreshInstance /\ NoSearch

----------------------------------------------------------------------------
\* Actions.

\* one call smart_chunk_text(text, chunk_size, overlap)
ChunkCall ==
    /\ ~cDone
    /\ cOut' = smart_chunk_text(cSentences, cSize, cOverlap)
    /\ cDone' = TRUE
    /\ UNCHANGED <<cSentences, cSize, cOverlap, instanceVars, passVars, searchVars>>

\* a new ImprovedRAGSystem on the same persist path: the collection is
\* reopened, chunks, chunk_data and bm25 start empty
Construct ==
    /\ outcome = "none"
    /\ pc = "idle"
    /\ instances < MaxInstances
    /\ instances' = instances + 1
    /\ chunk_data' = <<>> /\ chunks' = <<>> /\ bm25' = None
    /\ files' = <<>> /\ passResult' = "none"
    /\ UNCHANGED <<chunkerVars, store, passes, pc, fi, ci, all_chunks, all_ids, searchVars>>

\* process_documents is entered: glob, the four empty lists
StartPass ==
    /\ outcome = "none"
    /\ pc = "idle"
    /\ passes < MaxPasses
    /\ passes' = passes + 1
    /\ files' \in GlobResults
    /\ fi' = 1 /\ ci' = 0
    /\ all_chunks' = <<>> /\ all_ids' = <<>>
    /\ passResult' = "none"
    /\ pc' = "file"
    /\ UNCHANGED <<chunkerVars, store, chunk_data, chunks, bm25, instances, searchVars>>

FileChunks(doc) == smart_chunk_text(doc.sents, ChunkSizeArg, OverlapArg)

AfterFile(next) == IF next > Len(files) THEN "add" ELSE "file"

\* open, read and smart_chunk_text succeed for files[fi]
ReadFile ==
    /\ outcome = "none"
    /\ pc = "file"
    /\ ~files[fi].fails
    /\ IF FileChunks(files[fi]) = <<>>
       THEN fi' = fi + 1 /\ ci' = 0 /\ pc' = AfterFile(fi + 1)
       ELSE fi' = fi /\ ci' = 1 /\ pc' = "chunk"
    /\ UNCHANGED <<chunkerVars, instanceVars, files, all_chunks, all_ids,
                   passResult, searchVars>>

\* open, read or smart_chunk_text raises for files[fi]: nothing catches it, the
\* exception leaves process_documents
ReadFileRaises ==
    /\ outcome = "none"
    /\ pc = "file"
    /\ files[fi].fails
    /\ pc' = "idle" /\ passResult' = "aborted"
    /\ fi' = 0 /\ ci' = 0 /\ all_chunks' = <<>> /\ all_ids' = <<>>
    /\ UNCHANGED <<chunkerVars, instanceVars, files, searchVars>>

\* one turn of the loop over the chunks of files[fi]
RegisterChunk ==
    /\ outcome = "none"
    /\ pc = "chunk"
    /\ LET file_path == files[fi].path
           cs == FileChunks(files[fi])
           chunk == cs[ci]
           chunk_id == ChunkId(file_path, ci - 1, chunk)
           metadata == extract_metadata(chunk, file_path)
       IN /\ all_chunks' = Append(all_chunks, chunk)
          /\ all_ids' = Append(all_ids, chunk_id)
          /\ chunk_data' = DictSet(chunk_data,
                               [id |-> chunk_id, content |-> chunk, metadata |-> metadata])
          /\ IF ci < Len(cs)
             THEN ci' = ci + 1 /\ fi' = fi /\ pc' = "chunk"
             ELSE ci' = 0 /\ fi' = fi + 1 /\ pc' = AfterFile(fi + 1)
    /\ UNCHANGED <<chunkerVars, store, chunks, bm25, instances, passes, files,
                   passResult, searchVars>>

\* if all_chunks: self.collection.add(...)
AddToStore ==
    /\ outcome = "none"
    /\ pc = "add"
    /\ store' = IF all_chunks # <<>> THEN store \cup Range(all_ids) ELSE store
    /\ pc' = "bm25"
    /\ UNCHANGED <<chunkerVars, chunk_data, chunks, bm25, instances, passes, files,
                   fi, ci, all_chunks, all_ids, passResult, searchVars>>

\* self.chunks = all_chunks; self.bm25 = BM25Okapi(tokenized_corpus); return
BuildBM25 ==
    /\ outcome = "none"
    /\ pc = "bm25"
    /\ chunks' = all_chunks
    /\ bm25' = BM25Okapi(Tokenized(all_chunks))
    /\ pc' = "idle" /\ passResult' = "completed"
    /\ fi' = 0 /\ ci' = 0 /\ all_chunks' = <<>> /\ all_ids' = <<>>
    /\ UNCHANGED <<chunkerVars, store, chunk_data, instances, passes, files, searchVars>>

\* search whose vector-store query raises
SearchStoreRaises(query, n_results) ==
    /\ sQuery' = query /\ sK' = n_results
    /\ outcome' = "StoreError"
    /\ semantic_results' = <<>> /\ combined_scores' = <<>>
    /\ sorted_items' = <<>> /\ formatted_results' = <<>>
    /\ UNCHANGED <<chunkerVars, instanceVars, passVars>>

\* search after collection.query has returned sem: what the call ends in and
\* the locals it has computed by then
SearchResult(query, n_results, sem) ==
    LET query_tokens == enhance_query(query)
        keys == Keys(chunk_data)
        bm25_scores == get_scores(bm25, query_tokens)
        combined == AddBM25(AddSemantic(<<>>, sem, 1), bm25_scores, keys, 1)
        failed(e) == [outcome |-> e, combined |-> <<>>, top |-> <<>>, results |-> <<>>]
    IN
    IF ~bm25.built
    THEN \* self.bm25 is None: None.get_scores raises
         failed("AttributeError")
    ELSE IF Len(bm25_scores) > Len(keys)
    THEN \* keys[i] past the end of the registry
         failed("IndexError")
    ELSE LET top == Truncate(SortedByScore(combined), n_results)
         IN IF \E p \in 1..Len(top) : top[p].id \notin Range(keys)
            THEN \* self.chunk_data[chunk_id] raises
                 [outcome |-> "KeyError", combined |-> combined, top |-> top,
                  results |-> <<>>]
            ELSE [outcome |-> "ok", combined |-> combined, top |-> top,
                  results |-> Formatted(top, chunk_data)]

SearchRun(query, n_results, sem) ==
    /\ sQuery' = query /\ sK' = n_results
    /\ semantic_results' = sem
    /\ \E r \in {SearchResult(query, n_results, sem)} :
         /\ outcome' = r.outcome
         /\ combined_scores' = r.combined
         /\ sorted_items' = r.top
         /\ formatted_results' = r.results
    /\ UNCHANGED <<chunkerVars, instanceVars, passVars>>

\* the caller takes the result (or catches the exception)
SearchReturn ==
    /\ outcome # "none"
    /\ sQuery' = <<>> /\ sK' = 0 /\ outcome' = "none"
    /\ semantic_results' = <<>> /\ combined_scores' = <<>>
    /\ sorted_items' = <<>> /\ formatted_results' = <<>>
    /\ UNCHANGED <<chunkerVars, instanceVars, passVars>>

Search ==
    \E query \in Queries, n_results \in 1..MaxK :
        \/ SearchStoreRaises(query, n_results)
        \/ \E sem \in QueryResults(n_results * CandidateMultiplier) :
              SearchRun(query, n_results, sem)

----------------------------------------------------------------------------
\* Specifications.

\* one thread: search is called between passes
SearchBetweenPasses == outcome = "none" /\ pc = "idle" /\ Search

Next ==
    \/ Construct
    \/ StartPass
    \/ ReadFile
    \/ ReadFileRaises
    \/ RegisterChunk
    \/ AddToStore
    \/ BuildBM25
    \/ SearchBetweenPasses
    \/ SearchReturn

Spec == Init /\ [][Next]_vars

\* a second thread searches while a pass runs
SearchAnyTime == outcome = "none" /\ Search

NextConcurrent ==
    \/ Construct
    \/ StartPass
    \/ ReadFile
    \/ ReadFileRaises
    \/ RegisterChunk
    \/ AddToStore
    \/ BuildBM25
    \/ SearchAnyTime
    \/ SearchReturn

SpecConcurrent == Init /\ [][NextConcurrent]_vars

\* the chunker on its own
NextChunker == ChunkCall

SpecChunker == InitChunker /\ [][NextChunker]_vars

----------------------------------------------------------------------------
\* Properties.

\* position of a chunk id in the registry (0: not a key)
RegPos(id) ==
    IF \E p \in 1..Len(chunk_data) : chunk_data[p].id = id
    THEN CHOOSE p \in 1..Len(chunk_data) : chunk_data[p].id = id
    ELSE 0

\* rank of a chunk id in the semantic branch's result (0: absent)
SemRank(id) ==
    IF \E p \in 1..Len(semantic_results) : semantic_results[p].id = id
    THEN CHOOSE p \in 1..Len(semantic_results) : semantic_results[p].id = id
    ELSE 0

SemIds == {semantic_results[p].id : p \in 1..Len(semantic_results)}

PassCompleted == pc = "idle" /\ passResult = "completed"

\* every registered chunk has reached the vector store: no pass of the
\* instance was cut short after registering chunks
NoPassCutShort == \A p \in 1..Len(chunk_data) : chunk_data[p].id \in store

\* C1: after every completed indexing pass (here: of an instance none of whose
\* passes was cut short) the scorer's score list has as many entries as the
\* registry has chunks, and entry i was computed from the text of the chunk at
\* registry position i.
C1_ScorerAlignedWithRegistry ==
    (PassCompleted /\ NoPassCutShort) =>
        /\ bm25.built
        /\ \A q \in Queries :
             Len(get_scores(bm25, enhance_query(q))) = Len(chunk_data)
        /\ \A i \in 1..Len(bm25.corpus) :
             /\ i <= Len(chunk_data)
             /\ bm25.corpus[i] = Tokenized(<<chunk_data[i].content>>)[1]

\* C2: a search on an instance on which no indexing pass has completed, and
\* whose vector-store query does not itself fail, ends in the explicit
\* precondition error, never in a result list.
C2_SearchBeforeIndexIsPreconditionError ==
    (outcome \notin {"none", "StoreError"} /\ ~bm25.built)
        => outcome = "PreconditionError"

\* C3: the chunker drops no sentence: every sentence is contained in full in
\* some chunk, and the chunks with the repeated (overlap) tokens removed give
\* back the input in its order.
C3_NoSentenceDropped ==
    cDone =>
        /\ \A j \in 1..Len(cSentences) :
             \E c \in 1..Len(cOut) : Occurs(cSentences[j], cOut[c])
        /\ DropRepeats(Flatten(cOut), {}) = Flatten(cSentences)

\* C4: every sentence of more than chunk_size tokens is emitted whole as a chunk
\* of its own, whether or not the buffer is empty when it is reached.
C4_OversizedSentenceIsOwnChunk ==
    cDone =>
        \A j \in 1..Len(cSentences) :
            EncLen(cSentences[j]) > cSize =>
                \E c \in 1..Len(cOut) : cOut[c] = cSentences[j]

C6_AtMostKDescendingNoRepeat ==
    outcome = "ok" =>
        /\ Len(formatted_results) <= sK
        /\ Len(formatted_results) = Len(sorted_items)
        /\ \A a, b \in 1..Len(formatted_results) :
             a < b =>
                /\ formatted_results[a].score >= formatted_results[b].score
                /\ sorted_items[a].id # sorted_items[b].id
                /\ formatted_results[a].score = sorted_items[a].score

\* k results of different scores cut out of more candidates
C6_Witness ==
    /\ outcome = "ok"
    /\ sK = MaxK
    /\ Len(formatted_results) = sK
    /\ Len(combined_scores) > sK
    /\ formatted_results[1].score > formatted_results[sK].score

\* C7: while a pass runs, the registry a search can read holds no chunk the
\* published scorer was not built over, and the scorer is as long as the registry.
C7_NoPartialIndexVisible ==
    /\ Len(bm25.corpus) = Len(chunk_data)
    /\ \A p \in 1..Len(chunk_data) :
         /\ p <= Len(bm25.corpus)
         /\ bm25.corpus[p] = Tokenized(<<chunk_data[p].content>>)[1]

\* the chunks a pass over f builds the scorer on if failing files are skipped
RECURSIVE ChunksOfReadable(_)
ChunksOfReadable(f) ==
    IF f = <<>> THEN <<>>
    ELSE (IF Head(f).fails THEN <<>> ELSE FileChunks(Head(f)))
         \o ChunksOfReadable(Tail(f))

\* C8: a pass over files of which one fails and another does not is not
\* aborted: it ends with the scorer built over the chunks of the other files,
\* all of them registered.
C8_FailingFileIsSkipped ==
    (/\ pc = "idle" /\ passResult # "none"
     /\ \E i \in 1..Len(files) : files[i].fails
     /\ \E i \in 1..Len(files) : ~files[i].fails) =>
        /\ passResult = "completed"
        /\ bm25.built
        /\ bm25.corpus = Tokenized(ChunksOfReadable(files))
        /\ \A c \in Range(ChunksOfReadable(files)) :
             \E p \in 1..Len(chunk_data) : chunk_data[p].content = c

\* C9 as claimed: a chunk absent from the semantic result set whose combined
\* score is 0 is never returned.
C9_ZeroScoreNeverReturned ==
    outcome = "ok" =>
        \A p \in 1..Len(sorted_items) :
            ~(sorted_items[p].id \notin SemIds /\ sorted_items[p].score = 0)

\* C9 as amended: search ranks every fused candidate whatever its score: the
\* candidates are the semantic results and the chunks at the registry positions
\* the scorer scored, the returned list has min(k, candidates) entries, and no
\* candidate left out scores higher than a returned one.
C9_EveryCandidateRanked ==
    outcome = "ok" =>
        /\ {combined_scores[p].id : p \in 1..Len(combined_scores)}
             = SemIds \cup {chunk_data[i].id : i \in 1..Len(bm25.corpus)}
        /\ Len(sorted_items) = Min(sK, Len(combined_scores))
        /\ Range(sorted_items) \subseteq Range(combined_scores)
        /\ \A e \in Range(combined_scores) \ Range(sorted_items) :
             \A p \in 1..Len(sorted_items) : sorted_items[p].score >= e.score

\* a returned chunk that is absent from the semantic results and scores 0
C9_Witness ==
    /\ outcome = "ok"
    /\ \E p \in 1..Len(sorted_items) :
         sorted_items[p].id \notin SemIds /\ sorted_items[p].score = 0

\* C10: once a pass has completed on the instance, the ids search ranks are
\* registry keys, so no search ends in a registry lookup failure.
C10_NoRegistryLookupFailure ==
    bm25.built => outcome \notin {"KeyError", "IndexError"}

====
